---- MODULE Spec2Model ----
(***************************************************************************)
(* Position lifecycle tracking and monitoring engine of sentimeter:        *)
(* the status checker (checkStatusChange), the prediction updater          *)
(* (updateAllPredictions), the recommendation store                        *)
(* (getActiveRecommendations / updateRecommendationStatus), the anomaly    *)
(* detector with its per-ticker cooldown map, and the monitor loop         *)
(* (startMonitoring / stopMonitoring / runCheck).                          *)
(*                                                                         *)
(* Nullable fields (string | null, number | null, StatusUpdate | null)     *)
(* are sets with at most one element: {} is null, {v} is the value v.      *)
(*                                                                         *)
(* Times are milliseconds since the epoch (Date.now()).  Prices are the    *)
(* integer rupiah prices the exchange quotes.  A percentage is carried in  *)
(* hundredths of a percent (-5.5% is -550).                                *)
(***************************************************************************)
EXTENDS Integers, Sequences, FiniteSets, Bags, TLC

(***************************************************************************)
(* Bounds of the model.                                                    *)
(***************************************************************************)
\* largest daysActive fed to the status checker on its own
MaxDaysActive == 5
\* number of runCheck invocations that can be in flight at the same time
MaxTicks == 2
\* last calendar day (UTC) the clock may reach
MaxDay == 3
\* number of consecutive calls of the status checker on one position
MaxCalls == 3

(***************************************************************************)
(* Program constants.                                                      *)
(***************************************************************************)
STALE_PENDING_DAYS == 3
\* lastAlert is suppressed while Date.now() - lastAlert < 3600000
COOLDOWN_MS == 3600000
\* 1000 * 60 * 60 * 24 in calculateDaysActive
DAY_MS == 86400000
\* tolerance = 0.005, written in thousandths: 1 + tolerance = 1005 / 1000
TOLERANCE_MILLI == 5

Statuses == {"pending", "entry_hit", "target_hit", "sl_hit", "expired"}
TerminalStatuses == {"target_hit", "sl_hit", "expired"}
OpenStatuses == {"pending", "entry_hit"}
OrderTypes == {"LIMIT", "MARKET"}

(***************************************************************************)
(* The status checker.                                                     *)
(***************************************************************************)

\* Entry prices e for which the IEEE-754 double  e * (1 + 0.005)  is smaller
\* than the integer e * 1005 / 1000:  1 + 0.005 is the double
\* 1.00499999999999989..., and for these e the product is not rounded back
\* up (1000 * 1.005 evaluates to 1004.9999999999999).  Every multiple of 200
\* up to 3000 behaves like this; no other integer price comparison against
\* upperBound or lowerBound differs from the exact one below 20000.
UpperBoundRoundsDown == {200 * k : k \in 1..15}

\* currentPrice <= entryPrice * (1 + tolerance), on doubles
leUpperBound(currentPrice, entryPrice) ==
    /\ currentPrice * 1000 <= entryPrice * (1000 + TOLERANCE_MILLI)
    /\ ~ ( /\ entryPrice \in UpperBoundRoundsDown
           /\ currentPrice * 1000 = entryPrice * (1000 + TOLERANCE_MILLI) )

\* currentPrice >= entryPrice * (1 - tolerance), on doubles
geLowerBound(currentPrice, entryPrice) ==
    currentPrice * 1000 >= entryPrice * (1000 - TOLERANCE_MILLI)

isPriceHit(currentPrice, targetPrice) ==
    geLowerBound(currentPrice, targetPrice) /\ leUpperBound(currentPrice, targetPrice)

\* a StatusUpdate; reason names the message template that was used
StatusUpdate(prediction, newStatus, currentPrice, reason) ==
    [ id |-> prediction.id,
      ticker |-> prediction.ticker,
      previousStatus |-> prediction.status,
      newStatus |-> newStatus,
      price |-> currentPrice,
      reason |-> reason ]

\* the two expiry rules of a pending position with the max-hold test ahead of
\* the stale-pending test
pendingExpiryMaxHoldFirst(prediction, currentPrice) ==
    IF prediction.daysActive >= prediction.maxHoldDays
    THEN {StatusUpdate(prediction, "expired", currentPrice, "max_hold_without_entry")}
    ELSE IF prediction.daysActive >= STALE_PENDING_DAYS
    THEN {StatusUpdate(prediction, "expired", currentPrice, "stale_pending")}
    ELSE {}

\* the two rules shared by both copies for a pending position that was not entered
pendingExpiry(prediction, currentPrice) ==
    IF prediction.daysActive >= STALE_PENDING_DAYS
    THEN {StatusUpdate(prediction, "expired", currentPrice, "stale_pending")}
    ELSE IF prediction.daysActive >= prediction.maxHoldDays
    THEN {StatusUpdate(prediction, "expired", currentPrice, "max_hold_without_entry")}
    ELSE {}

\* the rules for an entered position with the target test ahead of the
\* stop-loss test
entryHitRulesTargetFirst(prediction, currentPrice) ==
    IF currentPrice >= prediction.targetPrice
    THEN {StatusUpdate(prediction, "target_hit", currentPrice, "target")}
    ELSE IF currentPrice <= prediction.stopLoss
    THEN {StatusUpdate(prediction, "sl_hit", currentPrice, "stop_loss")}
    ELSE IF prediction.daysActive >= prediction.maxHoldDays
    THEN {StatusUpdate(prediction, "expired", currentPrice, "max_hold_exit")}
    ELSE {}

\* the rules for an entered position, identical in both copies
entryHitRules(prediction, currentPrice) ==
    IF currentPrice <= prediction.stopLoss
    THEN {StatusUpdate(prediction, "sl_hit", currentPrice, "stop_loss")}
    ELSE IF currentPrice >= prediction.targetPrice
    THEN {StatusUpdate(prediction, "target_hit", currentPrice, "target")}
    ELSE IF prediction.daysActive >= prediction.maxHoldDays
    THEN {StatusUpdate(prediction, "expired", currentPrice, "max_hold_exit")}
    ELSE {}

\* the branch taken once the closed-status guard has been passed
openStatusRules(prediction, currentPrice, entered) ==
    IF prediction.status = "pending"
    THEN IF entered
         THEN {StatusUpdate(prediction, "entry_hit", currentPrice, "entry")}
         ELSE pendingExpiry(prediction, currentPrice)
    ELSE IF prediction.status = "entry_hit"
    THEN entryHitRules(prediction, currentPrice)
    ELSE {}

\* the rules without the early return for a closed status, the last branch
\* taken for every status that is not pending
closedGuardMissing(prediction, currentPrice, entered) ==
    IF prediction.status = "pending"
    THEN openStatusRules(prediction, currentPrice, entered)
    ELSE entryHitRules(prediction, currentPrice)

\* the closed-status guard of both copies, then the open-status rules
closedGuard(prediction, currentPrice, entered) ==
    IF prediction.status \in TerminalStatuses
    THEN {}
    ELSE openStatusRules(prediction, currentPrice, entered)

\* checkStatusChange of the copy that enters MARKET orders inside the band
checkStatusChange(prediction, currentPrice) ==
    closedGuard(prediction, currentPrice,
                prediction.orderType = "MARKET"
                    /\ isPriceHit(currentPrice, prediction.entryPrice))

\* checkStatusChange of the copy that enters any order type at or below the
\* upper bound
checkStatusChangeAnyOrder(prediction, currentPrice) ==
    closedGuard(prediction, currentPrice,
                leUpperBound(currentPrice, prediction.entryPrice))

\* the copy of the status checker a build contains
EntryPolicies == {"market_band", "any_order"}

statusChecker(policy, prediction, currentPrice) ==
    IF policy = "market_band"
    THEN checkStatusChange(prediction, currentPrice)
    ELSE checkStatusChangeAnyOrder(prediction, currentPrice)

\* ((exitPrice - entryPrice) / entryPrice) * 100, in hundredths of a percent
calculatePnlPct(entryPrice, exitPrice) ==
    LET n == (exitPrice - entryPrice) * 10000
    IN  IF n >= 0 THEN n \div entryPrice ELSE -((-n) \div entryPrice)


(***************************************************************************)
(* The anomaly detector.                                                   *)
(***************************************************************************)
\* config.anomaly.priceChangePct (default "5.0"), in hundredths of a percent
PRICE_CHANGE_PCT == 500
\* config.anomaly.volumeMultiplier (default "3.0")
VOLUME_MULTIPLIER == 3

Abs(x) == IF x < 0 THEN -x ELSE x

\* a StockQuote: price, changePercent (hundredths of a percent), volume and
\* the optional averageVolume
Quote(price, changePercent, volume, averageVolume) ==
    [ price |-> price, changePercent |-> changePercent,
      volume |-> volume, averageVolume |-> averageVolume ]

\* the PRICE test without Math.abs: rises only
priceAnomalyRisesOnly(ticker, quote) ==
    IF quote.changePercent >= PRICE_CHANGE_PCT
    THEN << [ ticker |-> ticker, type |-> "PRICE",
              value |-> quote.changePercent, threshold |-> PRICE_CHANGE_PCT ] >>
    ELSE << >>

priceAnomaly(ticker, quote) ==
    IF Abs(quote.changePercent) >= PRICE_CHANGE_PCT
    THEN << [ ticker |-> ticker, type |-> "PRICE",
              value |-> quote.changePercent, threshold |-> PRICE_CHANGE_PCT ] >>
    ELSE << >>

\* the VOLUME test without the guard on averageVolume: an unknown average
\* counts as 0
volumeAnomalyUnguarded(ticker, quote) ==
    IF \A avg \in quote.averageVolume : quote.volume >= avg * VOLUME_MULTIPLIER
    THEN << [ ticker |-> ticker, type |-> "VOLUME",
              value |-> quote.volume, threshold |-> VOLUME_MULTIPLIER ] >>
    ELSE << >>

volumeAnomaly(ticker, quote) ==
    IF /\ quote.averageVolume # {}
       /\ \A avg \in quote.averageVolume :
             avg # 0 /\ avg > 0 /\ quote.volume >= avg * VOLUME_MULTIPLIER
    THEN << [ ticker |-> ticker, type |-> "VOLUME",
              value |-> quote.volume, threshold |-> VOLUME_MULTIPLIER ] >>
    ELSE << >>

detectAnomalies(ticker, quote) ==
    priceAnomaly(ticker, quote) \o volumeAnomaly(ticker, quote)

(***************************************************************************)
(* The configuration overrides.                                            *)
(***************************************************************************)
\* config.anomaly: read from the environment once, when the module is loaded
configAnomaly ==
    [ priceChangePct |-> PRICE_CHANGE_PCT, volumeMultiplier |-> VOLUME_MULTIPLIER ]

\* let overrides = {}: no anomaly threshold is overridden
NoOverrides == [ priceChangePct |-> {}, volumeMultiplier |-> {} ]

\* anomaly: { ...overrides.anomaly, ...partial.anomaly }
mergeOverrides(o, partial) ==
    [ priceChangePct |-> IF partial.priceChangePct # {}
                         THEN partial.priceChangePct ELSE o.priceChangePct,
      volumeMultiplier |-> IF partial.volumeMultiplier # {}
                           THEN partial.volumeMultiplier ELSE o.volumeMultiplier ]

\* o.anomaly?.priceChangePct ?? env.anomaly.priceChangePct, and the same for
\* volumeMultiplier
getEffectiveConfig(env, o) ==
    [ priceChangePct |-> IF o.priceChangePct # {}
                         THEN CHOOSE v \in o.priceChangePct : TRUE
                         ELSE env.priceChangePct,
      volumeMultiplier |-> IF o.volumeMultiplier # {}
                           THEN CHOOSE v \in o.volumeMultiplier : TRUE
                           ELSE env.volumeMultiplier ]


(***************************************************************************)
(* Market hours.  A Date is its parts in Jakarta wall-clock time: day is   *)
(* getDay() (0 Sunday to 6 Saturday).                                      *)
(***************************************************************************)
\* day === 0 || day === 6
isWeekend(date) == date.day = 0 \/ date.day = 6

\* isMarketOpen(mockDate)
isMarketOpen(date) ==
    LET timeInMinutes == date.hours * 60 + date.minutes
    IN  IF isWeekend(date) THEN FALSE
        ELSE IF timeInMinutes < 9 * 60 THEN FALSE
        ELSE IF /\ date.day = 5
                /\ timeInMinutes > 11 * 60 + 30
                /\ timeInMinutes < 13 * 60 + 30 THEN FALSE
        ELSE IF /\ date.day # 5
                /\ timeInMinutes > 12 * 60
                /\ timeInMinutes < 13 * 60 + 30 THEN FALSE
        ELSE IF timeInMinutes > 16 * 60 THEN FALSE
        ELSE TRUE

(***************************************************************************)
(* The recommendation store.                                               *)
(***************************************************************************)
Tickers == {"BBCA", "TLKM"}
PosIds == {1, 2}

\* a row of the recommendations table, as created by insertRecommendation:
\* status 'pending' by default, the date and price columns NULL
NewRecommendation(id, ticker, orderType, maxHoldDays) ==
    [ id |-> id, ticker |-> ticker,
      recommendationDate |-> 0,
      entryPrice |-> 1000, stopLoss |-> 950, targetPrice |-> 1100,
      maxHoldDays |-> maxHoldDays, orderType |-> orderType,
      status |-> "pending",
      entryHitDate |-> {}, exitDate |-> {}, exitPrice |-> {},
      profitLossPct |-> {} ]

RECURSIVE rowsOf(_, _)
\* the rows of db whose id is in ids, in the order of the query
rowsOf(db, ids) ==
    IF ids = {} THEN << >>
    ELSE LET id == CHOOSE i \in ids : \A j \in ids : i <= j
         IN  << db[id] >> \o rowsOf(db, ids \ {id})

\* SELECT ... WHERE status IN ('pending', 'entry_hit')
getActiveRecommendations(db) ==
    rowsOf(db, {id \in DOMAIN db : db[id].status \in OpenStatuses})

\* INSERT OR REPLACE: the rows that have the ticker and the date of the new
\* row (UNIQUE(ticker, recommendation_date)) are deleted, and the new row gets
\* the id after lastId (INTEGER PRIMARY KEY AUTOINCREMENT)
insertRecommendation(db, lastId, ticker, recommendationDate) ==
    LET kept == { id \in DOMAIN db :
                    ~ ( db[id].ticker = ticker
                        /\ db[id].recommendationDate = recommendationDate ) }
        row == [ NewRecommendation(lastId + 1, ticker, "LIMIT", 14)
                   EXCEPT !.recommendationDate = recommendationDate ]
    IN  [ id \in kept \cup {lastId + 1} |->
            IF id = lastId + 1 THEN row ELSE db[id] ]

\* DELETE ... : of the tickers with more than one open row, every open row
\* but the one with the lowest id
deleteDuplicatePositions(db) ==
    LET open == { id \in DOMAIN db : db[id].status \in OpenStatuses }
        openOf(t) == { id \in open : db[id].ticker = t }
        oldest == { id \in open : \A j \in openOf(db[id].ticker) : id <= j }
        deleted == { id \in open : /\ id \notin oldest
                                   /\ Cardinality(openOf(db[id].ticker)) > 1 }
    IN  [ id \in DOMAIN db \ deleted |-> db[id] ]

\* UPDATE recommendations SET ... WHERE id = $id
updateRecommendationStatus(db, id, status, exitPrice, profitLossPct, todayDate) ==
    IF id \notin DOMAIN db THEN db
    ELSE IF status = "entry_hit"
    THEN [db EXCEPT ![id].status = status, ![id].entryHitDate = {todayDate}]
    ELSE IF status \in TerminalStatuses
    THEN [db EXCEPT ![id].status = status, ![id].exitDate = {todayDate},
                    ![id].exitPrice = exitPrice,
                    ![id].profitLossPct = profitLossPct]
    ELSE db

(***************************************************************************)
(* The prediction updater.                                                 *)
(***************************************************************************)
\* Math.floor((now - new Date(startDate)) / (1000 * 60 * 60 * 24))
calculateDaysActive(startDate, t) == (t - startDate) \div DAY_MS

\* new Date().toISOString().slice(0, 10), as a day number
todayDateOf(t) == t \div DAY_MS

\* the fields of the TrackedPrediction the status checker reads
transformToTracked(rec, currentPrice, t) ==
    [ id |-> rec.id, ticker |-> rec.ticker, status |-> rec.status,
      entryPrice |-> rec.entryPrice, stopLoss |-> rec.stopLoss,
      targetPrice |-> rec.targetPrice, maxHoldDays |-> rec.maxHoldDays,
      orderType |-> rec.orderType,
      daysActive |-> calculateDaysActive(rec.recommendationDate, t) ]

\* the realized profit or loss without the wasEntered test
realizedPnlAlways(rec, statusUpdate, currentPrice) ==
    IF statusUpdate.newStatus \in TerminalStatuses
    THEN {calculatePnlPct(rec.entryPrice, currentPrice)}
    ELSE {}

\* wasEntered && isTerminal ? calculatePnlPct(rec.entryPrice, currentPrice) : undefined
realizedPnl(rec, statusUpdate, currentPrice) ==
    IF /\ statusUpdate.previousStatus = "entry_hit"
       /\ statusUpdate.newStatus \in TerminalStatuses
    THEN {calculatePnlPct(rec.entryPrice, currentPrice)}
    ELSE {}

RECURSIVE checkEach(_, _, _, _, _)
\* the loop "for (const rec of activeRecs)" of updateAllPredictions: db and
\* statusUpdates after the rows of activeRecs have been checked against the
\* prices of priceMap.  updateRecommendationStatus throws for the ids of
\* acc.failing: the loop ends there, with acc.thrown set.
checkEach(policy, activeRecs, priceMap, t, acc) ==
    IF activeRecs = << >> THEN acc
    ELSE
      LET rec == Head(activeRecs)
          rest == Tail(activeRecs)
      IN  IF priceMap[rec.ticker] = {} \/ priceMap[rec.ticker] = {0}
          THEN checkEach(policy, rest, priceMap, t, acc)
          ELSE
            LET currentPrice == CHOOSE p \in priceMap[rec.ticker] : TRUE
                tracked == transformToTracked(rec, currentPrice, t)
                found == statusChecker(policy, tracked, currentPrice)
            IN  IF found = {}
                THEN checkEach(policy, rest, priceMap, t, acc)
                ELSE
                  LET statusUpdate == CHOOSE u \in found : TRUE
                      pnl == realizedPnl(rec, statusUpdate, currentPrice)
                  IN  IF rec.id \in acc.failing
                      THEN [acc EXCEPT !.thrown = TRUE]
                      ELSE checkEach(policy, rest, priceMap, t,
                        [ acc EXCEPT
                            !.db = updateRecommendationStatus(
                                      acc.db, rec.id, statusUpdate.newStatus,
                                      {currentPrice}, pnl, todayDateOf(t)),
                            !.statusUpdates = Append(acc.statusUpdates, statusUpdate) ])

(***************************************************************************)
(* The anomaly scan of runCheck.                                           *)
(***************************************************************************)
\* the cooldown test with the comparison the wrong way round
inCooldownInverted(lastAlert, t) ==
    \E last \in lastAlert : last # 0 /\ t - last > COOLDOWN_MS

\* lastAlert && Date.now() - lastAlert < 3600000
inCooldown(lastAlert, t) ==
    \E last \in lastAlert : last # 0 /\ t - last < COOLDOWN_MS

RECURSIVE scanLoopNoWrite(_, _, _, _)
\* the scan without anomalyCooldowns.set(ticker, Date.now()) before the await
scanLoopNoWrite(tickers, quotes, t, s) ==
    IF tickers = << >>
    THEN [ cooldowns |-> s.cooldowns, alertLog |-> s.alertLog,
           lastScan |-> s.lastScan, alert |-> {}, anomalies |-> << >>,
           rest |-> << >> ]
    ELSE
      LET ticker == Head(tickers)
          quoteData == quotes[ticker]
          found == IF quoteData = {} THEN << >>
                   ELSE detectAnomalies(ticker, CHOOSE q \in quoteData : TRUE)
          suppressed == inCooldown(s.cooldowns[ticker], t)
          alerts == ~suppressed /\ Len(found) > 0
          earlier == { s.alertLog[ticker][i] : i \in 1..Len(s.alertLog[ticker]) }
          seen == [ anomalous |-> Len(found) > 0, alerted |-> alerts,
                    recent |-> \E a \in earlier : t - a < COOLDOWN_MS,
                    allOlder |-> \A a \in earlier : t - a > COOLDOWN_MS ]
          logged == [s EXCEPT !.lastScan[ticker] = {seen}]
      IN  IF alerts
          THEN [ cooldowns |-> s.cooldowns,
                 alertLog |-> [s.alertLog EXCEPT ![ticker] = Append(@, t)],
                 lastScan |-> logged.lastScan,
                 alert |-> {ticker}, anomalies |-> found, rest |-> Tail(tickers) ]
          ELSE scanLoopNoWrite(Tail(tickers), quotes, t, logged)

RECURSIVE scanLoop(_, _, _, _)
\* the loop "for (const ticker of Object.keys(result.currentPrices))" up to
\* its first await: s carries anomalyCooldowns and the two observation logs.
\* lastScan notes, for the ticker examined, whether its quote was anomalous,
\* whether an alert was raised, and how old the earlier alerts were.
scanLoop(tickers, quotes, t, s) ==
    IF tickers = << >>
    THEN [ cooldowns |-> s.cooldowns, alertLog |-> s.alertLog,
           lastScan |-> s.lastScan, alert |-> {}, anomalies |-> << >>,
           rest |-> << >> ]
    ELSE
      LET ticker == Head(tickers)
          quoteData == quotes[ticker]
          found == IF quoteData = {} THEN << >>
                   ELSE detectAnomalies(ticker, CHOOSE q \in quoteData : TRUE)
          suppressed == inCooldown(s.cooldowns[ticker], t)
          alerts == ~suppressed /\ Len(found) > 0
          earlier == { s.alertLog[ticker][i] : i \in 1..Len(s.alertLog[ticker]) }
          seen == [ anomalous |-> Len(found) > 0, alerted |-> alerts,
                    recent |-> \E a \in earlier : t - a < COOLDOWN_MS,
                    allOlder |-> \A a \in earlier : t - a > COOLDOWN_MS ]
          logged == [s EXCEPT !.lastScan[ticker] = {seen}]
      IN  IF alerts
          THEN [ cooldowns |-> [s.cooldowns EXCEPT ![ticker] = {t}],
                 alertLog |-> [s.alertLog EXCEPT ![ticker] = Append(@, t)],
                 lastScan |-> logged.lastScan,
                 alert |-> {ticker}, anomalies |-> found, rest |-> Tail(tickers) ]
          ELSE scanLoop(Tail(tickers), quotes, t, logged)

(***************************************************************************)
(* State.                                                                  *)
(***************************************************************************)
VARIABLES
    policy,           \* the copy of checkStatusChange this build contains
    now,              \* Date.now()
    recs,             \* the recommendations table, by id
    intervalId,       \* monitor.ts: the check timer, {} when null
    clockIntervalId,  \* monitor.ts: the heartbeat timer, {} when null
    checkTimers,      \* the timers set by setInterval(runCheck) and not cleared
    clockTimers,      \* the heartbeat timers set and not cleared
    broadcastFn,      \* monitor.ts: TRUE when a broadcast function is set
    anomalyCooldowns, \* monitor.ts: ticker -> last alert time, {} when absent
    ticks,            \* the runCheck invocations in flight, a bag
    entryWrites,      \* history: entry_hit updates written, per position
    enteredOnce,      \* history: positions whose stored status was entry_hit
    writtenFrom,      \* history: previousStatus of the update written last
    alertLog,         \* history: the alert times of each ticker, in order
    lastScan,         \* history: the last cooldown decision for each ticker
    notifyLog,        \* history: the alerts notifyAnomaly was called for, per ticker
    lastStep,         \* history: the last step taken and what it emitted
    ePc, ePred, ePrice, eResults, \* the status checker on its own
    overrides,        \* config-overrides.ts: the overrides object
    dPc, dQuote, dResult,         \* the anomaly detector on its own
    lastRowId,        \* sqlite_sequence of recommendations: the last id given out
    hPc, hDate, hResult,          \* isMarketOpen on its own
    schedulerEnabled, \* scheduler-manager.ts: schedulerEnabled
    jobs,             \* scheduler-manager.ts: the array jobs, as references to job objects
    jobHeap,          \* the ScheduledJob objects ever built: schedule and timeout
    timers,           \* the setTimeout timers of scheduleJob that are pending
    running,          \* the job objects whose callback awaits runDailyAnalysis
    lastTimerId       \* the last timer handle setTimeout returned

vars == << policy, now, recs, intervalId, clockIntervalId, checkTimers,
           clockTimers, broadcastFn, anomalyCooldowns,
           ticks, entryWrites, enteredOnce, writtenFrom, alertLog, lastScan,
           notifyLog, lastStep, ePc, ePred, ePrice, eResults,
           overrides, dPc, dQuote, dResult, lastRowId,
           hPc, hDate, hResult,
           schedulerEnabled, jobs, jobHeap, timers, running, lastTimerId >>

engineVars == << ePc, ePred, ePrice, eResults >>

detectorVars == << overrides, dPc, dQuote, dResult >>

hoursVars == << hPc, hDate, hResult >>

schedVars == << schedulerEnabled, jobs, jobHeap, timers, running, lastTimerId >>

timerVars == << intervalId, clockIntervalId, checkTimers, clockTimers >>

\* what runCheck's catch does with an exception: console.error, and the
\* promise of runCheck resolves
catchMissing == {"unhandled_rejection"}

catchAtBoundary == {"monitor_error"}

\* lastStep while the steps are not recorded
StepOff ==
    [ op |-> "off", marketOpen |-> {}, out |-> {}, errors |-> {},
      saveFailed |-> FALSE, activeRecs |-> << >>, priceMap |-> << >>,
      analysis |-> {}, dropped |-> {}, afterError |-> FALSE ]

\* lastStep before the first step
StepNone == [StepOff EXCEPT !.op = "none"]

\* the record of a step: the operation, the answer of isMarketOpen() ({} when
\* it was not asked), the broadcasts, notifications and log lines emitted, the
\* TrackingResult.errors of the pass and the snapshot and prices it used; for
\* AnalyzeReturns the text assigned to `analysis`, and for a step that ends in
\* the catch of runCheck the work of the invocation that is not done
Step(op, marketOpen, out, errors, saveFailed, activeRecs, priceMap) ==
    [ op |-> op, marketOpen |-> marketOpen, out |-> out, errors |-> errors,
      saveFailed |-> saveFailed, activeRecs |-> activeRecs, priceMap |-> priceMap,
      analysis |-> {}, dropped |-> {},
      afterError |-> lastStep.afterError \/ "monitor_error" \in lastStep.out ]

Note(step) ==
    lastStep' = IF lastStep.op = "off" THEN lastStep ELSE step

\* a step that is no pass of the updater
Plain(op, marketOpen, out) ==
    Note(Step(op, marketOpen, out, {}, FALSE, << >>, << >>))

\* a runCheck invocation awaiting fetchMultipleQuotes
TickFetching(activeRecs) ==
    [ pc |-> "fetch", activeRecs |-> activeRecs, updates |-> << >>,
      quotes |-> [t \in Tickers |-> {}], scan |-> << >>,
      alert |-> {}, anomalies |-> << >> ]

\* the bag ticks with the invocation tick replaced by its successors
Replace(tick, successors) ==
    (ticks (-) SetToBag({tick})) (+) SetToBag(successors)

\* 02:00 UTC (09:00 in Jakarta, the opening of the exchange) of day 2: the
\* positions were recommended on day 0 and the monitor starts two days later
StartNow == 2 * DAY_MS + 7200000
MaxNow == (MaxDay + 1) * DAY_MS - 1

InitMonitor(ids) ==
    /\ now = StartNow
    /\ recs = [ id \in ids |->
                  IF id = 1 THEN NewRecommendation(1, "BBCA", "MARKET", 3)
                            ELSE NewRecommendation(id, "TLKM", "LIMIT", 14) ]
    /\ intervalId = {}
    /\ clockIntervalId = {}
    /\ checkTimers = 0
    /\ clockTimers = 0
    /\ anomalyCooldowns = [t \in Tickers |-> {}]
    /\ ticks = EmptyBag
    /\ entryWrites = [id \in ids |-> 0]
    /\ enteredOnce = {}
    /\ writtenFrom = [id \in ids |-> {}]
    /\ alertLog = [t \in Tickers |-> << >>]
    /\ lastScan = [t \in Tickers |-> {}]
    /\ notifyLog = [t \in Tickers |-> 0]
    /\ lastRowId = Cardinality(ids)

\* the steps are not recorded; a broadcast function is set
Unobserved ==
    /\ lastStep = StepOff
    /\ broadcastFn = TRUE

EngineOff ==
    /\ ePc = "off"
    /\ ePred = transformToTracked(NewRecommendation(1, "BBCA", "LIMIT", 2), 1000, 0)
    /\ ePrice = 1000
    /\ eResults = << >>

DetectorOff ==
    /\ overrides = NoOverrides
    /\ dPc = "off"
    /\ dQuote = Quote(1000, 0, 0, {})
    /\ dResult = {}

HoursOff ==
    /\ hPc = "off"
    /\ hDate = [ day |-> 0, hours |-> 0, minutes |-> 0, seconds |-> 0 ]
    /\ hResult = {}

\* scheduler-manager.ts as loaded: let jobs = [], schedulerEnabled = false
SchedOff ==
    /\ schedulerEnabled = FALSE
    /\ jobs = << >>
    /\ jobHeap = << >>
    /\ timers = {}
    /\ running = EmptyBag
    /\ lastTimerId = 0

(***************************************************************************)
(* runCheck, from its start to the await of fetchMultipleQuotes.           *)
(***************************************************************************)
\* runCheck without the test of isMarketOpen()
runCheckIgnoresMarket(marketOpen) ==
    LET activeRecs == getActiveRecommendations(recs)
    IN  IF activeRecs = << >>
        THEN UNCHANGED ticks
        ELSE /\ BagCardinality(ticks) < MaxTicks
             /\ ticks' = ticks (+) SetToBag({TickFetching(activeRecs)})

\* isMarketOpen() answered marketOpen: a closed market and an empty open set
\* both end the invocation before its first await
runCheck(marketOpen) ==
    LET activeRecs == getActiveRecommendations(recs)
    IN  IF ~marketOpen \/ activeRecs = << >>
        THEN UNCHANGED ticks
        ELSE /\ BagCardinality(ticks) < MaxTicks
             /\ ticks' = ticks (+) SetToBag({TickFetching(activeRecs)})

\* the ways an invocation of runCheck can begin: the market is open, it is
\* closed, or isMarketOpen() or getActiveRecommendations() throws
CheckStarts == {"open", "closed", "throws"}

\* void runCheck(), recorded as a step of the operation op
invokeRunCheck(op) ==
    \E start \in CheckStarts :
        IF start = "throws"
        THEN /\ UNCHANGED ticks
             /\ Plain(op, {}, catchAtBoundary)
        ELSE /\ runCheck(start = "open")
             /\ Plain(op, {start = "open"},
                      IF ticks' # ticks THEN {"fetch"} ELSE {})

startClock ==
    IF clockIntervalId # {}
    THEN UNCHANGED << clockIntervalId, clockTimers >>
    ELSE clockIntervalId' = {1} /\ clockTimers' = clockTimers + 1

\* stopClock that forgets to clear the heartbeat timer
stopClockForgets ==
    UNCHANGED << clockIntervalId, clockTimers >>

stopClock ==
    IF clockIntervalId # {}
    THEN clockIntervalId' = {} /\ clockTimers' = clockTimers - 1
    ELSE UNCHANGED << clockIntervalId, clockTimers >>

\* startMonitoring without the test of intervalId
startMonitoringNoGuard ==
    /\ invokeRunCheck("startMonitoring")
    /\ startClock
    /\ intervalId' = {1}
    /\ checkTimers' = checkTimers + 1
    /\ UNCHANGED << policy, now, recs, broadcastFn, anomalyCooldowns, entryWrites,
                    enteredOnce, writtenFrom, alertLog, lastScan, notifyLog >>
    /\ UNCHANGED << engineVars, detectorVars, hoursVars, schedVars, lastRowId >>

startMonitoring ==
    /\ IF intervalId # {}
       THEN /\ UNCHANGED << timerVars, ticks >>
            /\ Plain("startMonitoring", {}, {"warn"})
       ELSE /\ invokeRunCheck("startMonitoring")
            /\ startClock
            /\ intervalId' = {1}
            /\ checkTimers' = checkTimers + 1
    /\ UNCHANGED << policy, now, recs, broadcastFn, anomalyCooldowns, entryWrites,
                    enteredOnce, writtenFrom, alertLog, lastScan, notifyLog >>
    /\ UNCHANGED << engineVars, detectorVars, hoursVars, schedVars, lastRowId >>

\* stopMonitoring that also abandons the invocations in flight
stopMonitoringAborts ==
    /\ IF intervalId # {}
       THEN /\ intervalId' = {}
            /\ checkTimers' = checkTimers - 1
            /\ stopClock
            /\ ticks' = EmptyBag
            /\ Plain("stopMonitoring", {}, {"stopped"})
       ELSE /\ UNCHANGED << timerVars, ticks >>
            /\ Plain("stopMonitoring", {}, {})
    /\ UNCHANGED << policy, now, recs, broadcastFn, anomalyCooldowns,
                    entryWrites, enteredOnce, writtenFrom, alertLog, lastScan,
                    notifyLog >>
    /\ UNCHANGED << engineVars, detectorVars, hoursVars, schedVars, lastRowId >>

stopMonitoring ==
    /\ IF intervalId # {}
       THEN /\ intervalId' = {}
            /\ checkTimers' = checkTimers - 1
            /\ stopClock
            /\ Plain("stopMonitoring", {}, {"stopped"})
       ELSE /\ UNCHANGED timerVars
            /\ Plain("stopMonitoring", {}, {})
    /\ UNCHANGED << policy, now, recs, broadcastFn, anomalyCooldowns, ticks,
                    entryWrites, enteredOnce, writtenFrom, alertLog, lastScan,
                    notifyLog >>
    /\ UNCHANGED << engineVars, detectorVars, hoursVars, schedVars, lastRowId >>

\* the setInterval callback: void runCheck()
TimerFires ==
    /\ checkTimers > 0
    /\ invokeRunCheck("TimerFires")
    /\ UNCHANGED << policy, now, recs, timerVars, broadcastFn,
                    anomalyCooldowns, entryWrites, enteredOnce, writtenFrom,
                    alertLog, lastScan, notifyLog >>
    /\ UNCHANGED << engineVars, detectorVars, hoursVars, schedVars, lastRowId >>

\* the callback of the heartbeat timer: it asks neither the market hours nor
\* the store
Heartbeat ==
    /\ clockTimers > 0
    /\ Plain("Heartbeat", {}, IF broadcastFn THEN {"HEARTBEAT"} ELSE {})
    /\ UNCHANGED << policy, now, recs, timerVars, broadcastFn, anomalyCooldowns,
                    ticks, entryWrites, enteredOnce, writtenFrom, alertLog,
                    lastScan, notifyLog >>
    /\ UNCHANGED << engineVars, detectorVars, hoursVars, schedVars, lastRowId >>

\* time passes, by one of the steps and not beyond limit; with betweenChecks,
\* only while no runCheck invocation is in flight
Advance(steps, limit, betweenChecks) ==
    /\ betweenChecks => ticks = EmptyBag
    /\ \E d \in steps : now + d <= limit /\ now' = now + d
    /\ Plain("Advance", {}, {})
    /\ UNCHANGED << policy, recs, timerVars, broadcastFn, anomalyCooldowns,
                    ticks, entryWrites, enteredOnce, writtenFrom, alertLog,
                    lastScan, notifyLog >>
    /\ UNCHANGED << engineVars, detectorVars, hoursVars, schedVars, lastRowId >>

(***************************************************************************)
(* runCheck, the anomaly scan from the ticker list `tickers` on, up to the *)
(* next await (analyzeAnomaly) or the end of the invocation.               *)
(***************************************************************************)
enterScan(tick, quotes, tickers) ==
    LET r == scanLoop(tickers, quotes, now,
                      [ cooldowns |-> anomalyCooldowns, alertLog |-> alertLog,
                        lastScan |-> lastScan ])
    IN  /\ anomalyCooldowns' = r.cooldowns
        /\ alertLog' = r.alertLog
        /\ lastScan' = r.lastScan
        /\ ticks' = Replace(tick,
                      IF r.alert = {} THEN {}
                      ELSE { [ pc |-> "analyze", activeRecs |-> << >>,
                               updates |-> << >>,
                               quotes |-> [t \in Tickers |->
                                   IF \E i \in 1..Len(r.rest) : r.rest[i] = t
                                   THEN quotes[t] ELSE {}],
                               scan |-> r.rest, alert |-> r.alert,
                               anomalies |-> r.anomalies ] })

RECURSIVE seqsOf(_)
\* the orders in which the tickers of a set can have been inserted
seqsOf(S) ==
    IF S = {} THEN { << >> }
    ELSE UNION { { << x >> \o rest : rest \in seqsOf(S \ {x}) } : x \in S }

(***************************************************************************)
(* updateAllPredictions after fetchMultipleQuotes has returned, and        *)
(* runCheck up to its next await.                                          *)
(***************************************************************************)
\* no save throws, and every failed price lookup carries an error message
NoFaults == [ save |-> { {} }, silent |-> FALSE ]

\* what runCheck broadcasts after updateAllPredictions has returned
broadcastsOf(resolved, ups) ==
    IF ~broadcastFn THEN {}
    ELSE (IF resolved # {} THEN {"PRICE_UPDATE"} ELSE {})
         \cup (IF ups # << >> THEN {"STATUS_UPDATE"} ELSE {})

\* faults.save: the sets of ids whose UPDATE may throw; faults.silent: whether
\* a price lookup may fail without an error message (fetchQuote caught an
\* error with an empty message, or Yahoo returned no quote)
FetchReturns(tick, quoteInputs, faults) ==
    /\ tick.pc = "fetch"
    /\ LET tickers == { tick.activeRecs[i].ticker : i \in 1..Len(tick.activeRecs) }
       IN  \E fetched \in [tickers -> {{}} \cup {{q} : q \in quoteInputs}],
              failing \in faults.save :
           \E silent \in IF faults.silent
                         THEN SUBSET { t \in tickers : fetched[t] = {} }
                         ELSE { {} } :
           LET quotes == [t \in Tickers |-> IF t \in tickers THEN fetched[t] ELSE {}]
               priceMap == [t \in Tickers |-> {q.price : q \in quotes[t]}]
               out == checkEach(policy, tick.activeRecs, priceMap, now,
                                [ db |-> recs, statusUpdates |-> << >>,
                                  failing |-> failing, thrown |-> FALSE ])
               ups == out.statusUpdates
               entered == { ups[i].id : i \in { j \in 1..Len(ups) :
                                                  ups[j].newStatus = "entry_hit" } }
               resolved == { t \in tickers : quotes[t] # {} }
               errors == { t \in tickers : fetched[t] = {} } \ silent
           IN  /\ recs' = out.db
               /\ entryWrites' = [id \in DOMAIN recs |->
                                    entryWrites[id] + (IF id \in entered THEN 1 ELSE 0)]
               /\ enteredOnce' = enteredOnce \cup entered
               /\ writtenFrom' = [id \in DOMAIN recs |->
                     IF \E i \in 1..Len(ups) : ups[i].id = id
                     THEN { ups[i].previousStatus : i \in { j \in 1..Len(ups) :
                                                              ups[j].id = id } }
                     ELSE writtenFrom[id]]
               /\ IF out.thrown
                  THEN /\ ticks' = Replace(tick, {})
                       /\ UNCHANGED << anomalyCooldowns, alertLog, lastScan >>
                       /\ Note(Step("FetchReturns", {}, catchAtBoundary, {}, TRUE,
                                    tick.activeRecs, priceMap))
                  ELSE /\ \E order \in seqsOf(resolved) :
                            IF ups # << >>
                            THEN /\ ticks' = Replace(tick,
                                      { [ pc |-> "notifyStatus", activeRecs |-> << >>,
                                          updates |-> ups, quotes |-> quotes,
                                          scan |-> order, alert |-> {},
                                          anomalies |-> << >> ] })
                                 /\ UNCHANGED << anomalyCooldowns, alertLog, lastScan >>
                            ELSE enterScan(tick, quotes, order)
                       /\ Note(Step("FetchReturns", {}, broadcastsOf(resolved, ups),
                                    errors, FALSE, tick.activeRecs, priceMap))
    /\ UNCHANGED << policy, now, timerVars, broadcastFn, notifyLog >>
    /\ UNCHANGED << engineVars, detectorVars, hoursVars, schedVars, lastRowId >>

\* what sendTelegramNotification does: every user is sent the message, or the
\* send to a user fails and is caught and logged (telegram.ts 34-44), or the
\* call rejects (the lookup of the users or the deactivation of a user throws)
NotifyOutcomes == {"sent", "send_failed", "throws"}

\* the log line of the catch in sendTelegramNotification
sendLog(outcome) == IF outcome = "send_failed" THEN {"send_failed"} ELSE {}

\* the work of an invocation that is left undone when it ends in the catch of
\* runCheck while `left` notifications of the current loop were not yet sent
notDone(tick, left, kind) ==
    (IF left > 0 THEN {kind} ELSE {})
    \cup (IF kind = "notifyAnomaly" /\ broadcastFn THEN {"ANOMALY_DETECTED"} ELSE {})
    \cup (IF tick.scan # << >> THEN {"anomaly_scan"} ELSE {})

\* await notifyStatusChange(update) returns, or throws into the catch of runCheck
NotifyStatusReturns(tick) ==
    /\ tick.pc = "notifyStatus"
    /\ \E outcome \in NotifyOutcomes :
          IF outcome = "throws"
          THEN /\ ticks' = Replace(tick, {})
               /\ UNCHANGED << anomalyCooldowns, alertLog, lastScan >>
               /\ Note([ Step("NotifyStatusReturns", {}, catchAtBoundary, {}, FALSE,
                              << >>, << >>)
                           EXCEPT !.dropped = notDone(tick, Len(tick.updates) - 1,
                                                      "notifyStatusChange") ])
          ELSE /\ IF Len(tick.updates) > 1
                  THEN /\ ticks' = Replace(tick, {[tick EXCEPT !.updates = Tail(@)]})
                       /\ UNCHANGED << anomalyCooldowns, alertLog, lastScan >>
                  ELSE enterScan(tick, tick.quotes, tick.scan)
               /\ Plain("NotifyStatusReturns", {},
                        {"notifyStatusChange"} \cup sendLog(outcome))
    /\ UNCHANGED << policy, now, recs, timerVars, broadcastFn, entryWrites,
                    enteredOnce, writtenFrom, notifyLog >>
    /\ UNCHANGED << engineVars, detectorVars, hoursVars, schedVars, lastRowId >>

\* what generateContent does in analyzeAnomaly: a parsed answer, an answer
\* without data, or an exception; "rejects" is analyzeAnomaly itself rejecting
EnrichResponses == {"ok", "no_data", "throws", "rejects"}

\* analyzeAnomaly(ticker, anomaly, quote): the text returned, {} when the
\* call rejects
analyzeAnomaly(response) ==
    IF response = "ok" THEN {"analysis"}
    ELSE IF response = "no_data" THEN {"AI analysis failed: Unknown error"}
    ELSE IF response = "throws" THEN {"AI analysis unavailable."}
    ELSE {}

\* let analysis = ""; try { analysis = await analyzeAnomaly(...) } catch { log }
analysisOf(response) ==
    IF analyzeAnomaly(response) = {} THEN {""} ELSE analyzeAnomaly(response)

\* await analyzeAnomaly(...) returns or throws (analysis stays ""), and
\* notifyAnomaly is called for the first anomaly
AnalyzeReturns(tick) ==
    /\ tick.pc = "analyze"
    /\ ticks' = Replace(tick, {[tick EXCEPT !.pc = "notifyAnomaly"]})
    /\ notifyLog' = [t \in Tickers |->
                       IF t \in tick.alert THEN notifyLog[t] + 1 ELSE notifyLog[t]]
    /\ \E response \in EnrichResponses :
          Note([ Step("AnalyzeReturns", {}, {response}, {}, FALSE, << >>, << >>)
                   EXCEPT !.analysis = analysisOf(response) ])
    /\ UNCHANGED << policy, now, recs, timerVars, broadcastFn,
                    anomalyCooldowns, entryWrites, enteredOnce, writtenFrom,
                    alertLog, lastScan >>
    /\ UNCHANGED << engineVars, detectorVars, hoursVars, schedVars, lastRowId >>

\* await notifyAnomaly(anomaly, analysis) returns, or throws into the catch of
\* runCheck; after the last one ANOMALY_DETECTED is broadcast and the scan
\* goes on with the next ticker
NotifyAnomalyReturns(tick) ==
    /\ tick.pc = "notifyAnomaly"
    /\ \E outcome \in NotifyOutcomes :
          IF outcome = "throws"
          THEN /\ ticks' = Replace(tick, {})
               /\ UNCHANGED << anomalyCooldowns, alertLog, lastScan >>
               /\ Note([ Step("NotifyAnomalyReturns", {}, catchAtBoundary, {}, FALSE,
                              << >>, << >>)
                           EXCEPT !.dropped = notDone(tick, Len(tick.anomalies) - 1,
                                                      "notifyAnomaly") ])
          ELSE IF Len(tick.anomalies) > 1
          THEN /\ ticks' = Replace(tick, {[tick EXCEPT !.anomalies = Tail(@)]})
               /\ UNCHANGED << anomalyCooldowns, alertLog, lastScan >>
               /\ Plain("NotifyAnomalyReturns", {},
                        {"notifyAnomaly"} \cup sendLog(outcome))
          ELSE /\ enterScan(tick, tick.quotes, tick.scan)
               /\ Plain("NotifyAnomalyReturns", {},
                        {"notifyAnomaly"} \cup sendLog(outcome) \cup
                        (IF broadcastFn THEN {"ANOMALY_DETECTED"} ELSE {}))
    /\ UNCHANGED << policy, now, recs, timerVars, broadcastFn, entryWrites,
                    enteredOnce, writtenFrom, notifyLog >>
    /\ UNCHANGED << engineVars, detectorVars, hoursVars, schedVars, lastRowId >>

(***************************************************************************)
(* The monitor over the life of one position: days pass, and every price   *)
(* lookup returns a quote without anomaly, or fails.  An invocation starts *)
(* in trading hours (02:00 to 09:00 UTC) and the UTC date changes 15 hours *)
(* after they end, so the day advances between invocations.                *)
(***************************************************************************)
LifeQuotes ==
    { Quote(945, -100, 100, {100}),
      Quote(1000, 100, 100, {100}),
      Quote(1010, 100, 100, {}),
      Quote(1105, 100, 100, {100}) }

Init ==
    /\ HoursOff
    /\ SchedOff
    /\ policy \in EntryPolicies
    /\ InitMonitor({1})
    /\ Unobserved
    /\ EngineOff
    /\ DetectorOff

Next ==
    \/ startMonitoring
    \/ stopMonitoring
    \/ TimerFires
    \/ Advance({DAY_MS}, MaxNow, TRUE)
    \/ \E tick \in BagToSet(ticks) : FetchReturns(tick, LifeQuotes, NoFaults)
    \/ \E tick \in BagToSet(ticks) : NotifyStatusReturns(tick)

Spec == Init /\ [][Next]_vars


(***************************************************************************)
(* The monitor within two hours of one trading day: two open positions on  *)
(* two tickers, quotes with and without anomalies.                         *)
(***************************************************************************)
CoolQuotes ==
    { Quote(1010, 100, 100, {}),
      Quote(1010, 620, 400, {100}) }

\* half an hour and 61 minutes
CoolSteps == {1800000, 3660000}
CoolLimit == StartNow + 3660000

InitCooldown ==
    /\ HoursOff
    /\ SchedOff
    /\ policy = "market_band"
    /\ InitMonitor({1, 2})
    /\ Unobserved
    /\ EngineOff
    /\ DetectorOff

NextCooldown ==
    \/ startMonitoring
    \/ stopMonitoring
    \/ TimerFires
    \/ Advance(CoolSteps, CoolLimit, FALSE)
    \/ \E tick \in BagToSet(ticks) : FetchReturns(tick, CoolQuotes, NoFaults)
    \/ \E tick \in BagToSet(ticks) : AnalyzeReturns(tick)
    \/ \E tick \in BagToSet(ticks) : NotifyAnomalyReturns(tick)

SpecCooldown == InitCooldown /\ [][NextCooldown]_vars

(***************************************************************************)
(* The monitor loop with its steps recorded, within one instant of one     *)
(* trading day: one open position, price lookups that fail, saves and      *)
(* notifications that throw, and the heartbeat.                            *)
(***************************************************************************)
\* a quote at the entry price, and a fall of 6.2% to below the stop-loss
LoopQuotes ==
    { Quote(1000, 100, 100, {}),
      Quote(945, -620, 100, {}) }

\* the save of position 1 may throw; a price lookup may fail without a message
LoopFaults == [ save |-> { {}, {1} }, silent |-> TRUE ]

InitLoop ==
    /\ HoursOff
    /\ SchedOff
    /\ policy = "market_band"
    /\ InitMonitor({1})
    /\ lastStep = StepNone
    /\ broadcastFn \in BOOLEAN
    /\ EngineOff
    /\ DetectorOff

NextLoop ==
    \/ startMonitoring
    \/ stopMonitoring
    \/ TimerFires
    \/ Heartbeat
    \/ \E tick \in BagToSet(ticks) : FetchReturns(tick, LoopQuotes, LoopFaults)
    \/ \E tick \in BagToSet(ticks) : NotifyStatusReturns(tick)
    \/ \E tick \in BagToSet(ticks) : AnalyzeReturns(tick)
    \/ \E tick \in BagToSet(ticks) : NotifyAnomalyReturns(tick)

SpecLoop == InitLoop /\ [][NextLoop]_vars

(***************************************************************************)
(* The passes of the updater with their steps recorded: two open positions *)
(* on two tickers, and price lookups that fail for one ticker or for both. *)
(***************************************************************************)
\* a quote at the entry price and one above the entry band, without anomaly
PassQuotes ==
    { Quote(1000, 100, 100, {}),
      Quote(1010, 100, 100, {}) }

\* the save of the second position may throw; a price lookup may fail without
\* a message
PassFaults == [ save |-> { {}, {2} }, silent |-> TRUE ]

InitPass ==
    /\ HoursOff
    /\ SchedOff
    /\ policy \in EntryPolicies
    /\ InitMonitor({1, 2})
    /\ lastStep = StepNone
    /\ broadcastFn = TRUE
    /\ EngineOff
    /\ DetectorOff

NextPass ==
    \/ startMonitoring
    \/ TimerFires
    \/ \E tick \in BagToSet(ticks) : FetchReturns(tick, PassQuotes, PassFaults)
    \/ \E tick \in BagToSet(ticks) : NotifyStatusReturns(tick)

SpecPass == InitPass /\ [][NextPass]_vars

(***************************************************************************)
(* The store under the monitor: rows are inserted and duplicates deleted   *)
(* while the monitor runs its passes.                                      *)
(***************************************************************************)
\* the rows the table may ever have held
MaxRows == 3

\* the recommendation dates of the rows inserted
RecDates == {0, 1}

StoreQuotes ==
    { Quote(1000, 100, 100, {}), Quote(945, 100, 100, {}) }

InitStore ==
    /\ HoursOff
    /\ SchedOff
    /\ policy = "market_band"
    /\ InitMonitor({1})
    /\ Unobserved
    /\ EngineOff
    /\ DetectorOff

\* insertRecommendation(rec), called by the analysis job
InsertRecommendation ==
    /\ lastRowId < MaxRows
    /\ \E ticker \in Tickers, recommendationDate \in RecDates :
          recs' = insertRecommendation(recs, lastRowId, ticker, recommendationDate)
    /\ lastRowId' = lastRowId + 1
    /\ entryWrites' = [ id \in DOMAIN entryWrites \cup {lastRowId'} |->
                          IF id \in DOMAIN entryWrites THEN entryWrites[id] ELSE 0 ]
    /\ writtenFrom' = [ id \in DOMAIN writtenFrom \cup {lastRowId'} |->
                          IF id \in DOMAIN writtenFrom THEN writtenFrom[id] ELSE {} ]
    /\ Plain("insertRecommendation", {}, {})
    /\ UNCHANGED << policy, now, timerVars, broadcastFn, anomalyCooldowns, ticks,
                    enteredOnce, alertLog, lastScan, notifyLog >>
    /\ UNCHANGED << engineVars, detectorVars, hoursVars, schedVars >>

\* deleteDuplicatePositions()
DeleteDuplicatePositions ==
    /\ recs' = deleteDuplicatePositions(recs)
    /\ Plain("deleteDuplicatePositions", {}, {})
    /\ UNCHANGED << policy, now, timerVars, broadcastFn, anomalyCooldowns, ticks,
                    entryWrites, enteredOnce, writtenFrom, alertLog, lastScan,
                    notifyLog >>
    /\ UNCHANGED << engineVars, detectorVars, hoursVars, schedVars, lastRowId >>

NextStore ==
    \/ InsertRecommendation
    \/ DeleteDuplicatePositions
    \/ startMonitoring
    \/ TimerFires
    \/ \E tick \in BagToSet(ticks) : FetchReturns(tick, StoreQuotes, NoFaults)
    \/ \E tick \in BagToSet(ticks) : NotifyStatusReturns(tick)

SpecStore == InitStore /\ [][NextStore]_vars

(***************************************************************************)
(* The status checker on its own: one prediction and one price, checked    *)
(* again with the status each returned transition leads to.                *)
(***************************************************************************)
\* entryPrice, stopLoss, targetPrice: two well-formed positions, one with the
\* stop-loss above the target, one with both inside the entry band
LevelInputs ==
    { << 1000, 950, 1100 >>, << 500, 475, 550 >>,
      << 1000, 1100, 1000 >>, << 1000, 998, 1003 >> }

PriceInputs ==
    { 945, 950, 990, 995, 1000, 1005, 1006, 1050, 1100, 1105,
      497, 498, 502, 503, 520 }

MaxHoldInputs == {2, 14}

PredInputs ==
    { [ id |-> 1, ticker |-> "BBCA", status |-> st,
        entryPrice |-> lv[1], stopLoss |-> lv[2], targetPrice |-> lv[3],
        maxHoldDays |-> mh, orderType |-> ot, daysActive |-> da ] :
      st \in Statuses, lv \in LevelInputs, mh \in MaxHoldInputs,
      ot \in OrderTypes, da \in 0..MaxDaysActive }

InitEngine ==
    /\ HoursOff
    /\ SchedOff
    /\ policy \in EntryPolicies
    /\ InitMonitor({1})
    /\ Unobserved
    /\ ePc = "ready"
    /\ ePred \in PredInputs
    /\ ePrice \in PriceInputs
    /\ eResults = << >>
    /\ DetectorOff

\* the status of the prediction after the transitions returned so far
statusAfter(results, status) ==
    LET fired == { i \in 1..Len(results) : results[i] # {} }
    IN  IF fired = {} THEN status
        ELSE LET last == CHOOSE i \in fired : \A j \in fired : j <= i
             IN  (CHOOSE u \in results[last] : TRUE).newStatus

CheckAgain ==
    /\ ePc = "ready"
    /\ Len(eResults) < MaxCalls
    /\ eResults' = Append(eResults,
           statusChecker(policy,
                         [ePred EXCEPT !.status = statusAfter(eResults, ePred.status)],
                         ePrice))
    /\ UNCHANGED << policy, now, recs, timerVars, broadcastFn, lastStep,
                    anomalyCooldowns, ticks, entryWrites, enteredOnce,
                    writtenFrom, alertLog, lastScan, notifyLog, ePc, ePred, ePrice >>
    /\ UNCHANGED << detectorVars, hoursVars, schedVars, lastRowId >>

NextEngine == CheckAgain

SpecEngine == InitEngine /\ [][NextEngine]_vars


(***************************************************************************)
(* The anomaly detector on its own: one quote, the thresholds overridden   *)
(* at run time (PATCH /api/config), and detectAnomalies called on the      *)
(* quote.                                                                  *)
(***************************************************************************)
ChangeInputs == { -620, -500, -499, 0, 490, 499, 500, 620 }
VolumeInputs == { 0, 100, 299, 300, 400 }
AverageInputs == { {}, {0}, {100}, {-100} }

QuoteInputs ==
    { Quote(1000, c, v, a) : c \in ChangeInputs, v \in VolumeInputs, a \in AverageInputs }

\* the bodies PATCH /api/config accepts for the anomaly thresholds
PartialInputs ==
    { [ priceChangePct |-> p, volumeMultiplier |-> m ] :
        p \in { {}, {200}, {700} }, m \in { {}, {2}, {4} } }

InitDetector ==
    /\ HoursOff
    /\ SchedOff
    /\ policy = "market_band"
    /\ InitMonitor({1})
    /\ Unobserved
    /\ EngineOff
    /\ overrides = NoOverrides
    /\ dPc = "ready"
    /\ dQuote \in QuoteInputs
    /\ dResult = {}

\* updateOverrides(partial); the result held is that of a call made since
updateOverrides ==
    /\ dPc = "ready"
    /\ \E partial \in PartialInputs : overrides' = mergeOverrides(overrides, partial)
    /\ dResult' = {}
    /\ UNCHANGED << policy, now, recs, timerVars, broadcastFn, lastStep,
                    anomalyCooldowns, ticks, entryWrites, enteredOnce,
                    writtenFrom, alertLog, lastScan, notifyLog, dPc, dQuote >>
    /\ UNCHANGED << engineVars, lastRowId, hoursVars, schedVars >>

\* detectAnomalies(ticker, quote), as runCheck calls it
Detect ==
    /\ dPc = "ready"
    /\ dResult' = { detectAnomalies("BBCA", dQuote) }
    /\ UNCHANGED << policy, now, recs, timerVars, broadcastFn, lastStep,
                    anomalyCooldowns, ticks, entryWrites, enteredOnce,
                    writtenFrom, alertLog, lastScan, notifyLog,
                    overrides, dPc, dQuote >>
    /\ UNCHANGED << engineVars, lastRowId, hoursVars, schedVars >>

NextDetector == updateOverrides \/ Detect

SpecDetector == InitDetector /\ [][NextDetector]_vars

(***************************************************************************)
(* The scheduler manager of the daily jobs.  A ScheduledJob object is an   *)
(* index of jobHeap; the array jobs holds the two objects built last.  The *)
(* delay of a timer is left open: a pending timer may expire at any time.  *)
(***************************************************************************)
\* the ScheduledJob objects ever built
MaxJobObjects == 6

\* the timers ever set
MaxTimerIds == 5

Schedules == << "morning", "evening" >>

\* buildJobs(): two new objects, timeout: null
buildJobs(heap) ==
    [ heap |-> heap \o [ i \in 1..2 |-> [ schedule |-> Schedules[i], timeout |-> {} ] ],
      jobs |-> << Len(heap) + 1, Len(heap) + 2 >> ]

\* scheduleJob(job) on the state st = [heap, timers, last]: nothing when the
\* scheduler is disabled, else job.timeout = setTimeout(...)
scheduleJob(st, job, enabled) ==
    IF ~enabled THEN st
    ELSE [ heap |-> [st.heap EXCEPT ![job].timeout = {st.last + 1}],
           timers |-> st.timers \cup { [ id |-> st.last + 1, job |-> job ] },
           last |-> st.last + 1 ]

RECURSIVE scheduleEach(_, _, _)
\* for (const job of jobs) scheduleJob(job)
scheduleEach(st, jobList, enabled) ==
    IF jobList = << >> THEN st
    ELSE scheduleEach(scheduleJob(st, Head(jobList), enabled), Tail(jobList), enabled)

RECURSIVE stopAllJobs(_, _)
\* stopAllJobs(): clearTimeout of every timeout held by an object of the
\* array jobs (without effect on a timer that has expired), then null
stopAllJobs(st, jobList) ==
    IF jobList = << >> THEN st
    ELSE LET job == Head(jobList)
             held == st.heap[job].timeout
         IN  stopAllJobs(
               [ st EXCEPT !.heap[job].timeout = {},
                           !.timers = { t \in st.timers : t.id \notin held } ],
               Tail(jobList))

schedState == [ heap |-> jobHeap, timers |-> timers, last |-> lastTimerId ]

\* the scheduler variables after the calls that led to st
SchedBecomes(st) ==
    /\ jobHeap' = st.heap
    /\ timers' = st.timers
    /\ lastTimerId' = st.last

SchedFrame ==
    /\ UNCHANGED << policy, now, recs, timerVars, broadcastFn, lastStep,
                    anomalyCooldowns, ticks, entryWrites, enteredOnce,
                    writtenFrom, alertLog, lastScan, notifyLog >>
    /\ UNCHANGED << engineVars, detectorVars, hoursVars, lastRowId >>

\* room for two more job objects and their timers
SchedRoom ==
    /\ Len(jobHeap) + 2 <= MaxJobObjects
    /\ lastTimerId + 2 <= MaxTimerIds

startScheduler ==
    /\ IF schedulerEnabled
       THEN UNCHANGED schedVars
       ELSE /\ SchedRoom
            /\ schedulerEnabled' = TRUE
            /\ LET built == buildJobs(jobHeap)
               IN  /\ jobs' = built.jobs
                   /\ SchedBecomes(scheduleEach([schedState EXCEPT !.heap = built.heap],
                                                built.jobs, TRUE))
            /\ UNCHANGED running
    /\ SchedFrame

reloadSchedulerTimes ==
    /\ SchedRoom
    /\ LET wasEnabled == schedulerEnabled
           stopped == IF schedulerEnabled THEN stopAllJobs(schedState, jobs)
                      ELSE schedState
           built == buildJobs(stopped.heap)
       IN  /\ jobs' = built.jobs
           /\ SchedBecomes(scheduleEach([stopped EXCEPT !.heap = built.heap],
                                        built.jobs, wasEnabled))
    /\ UNCHANGED << schedulerEnabled, running >>
    /\ SchedFrame

stopScheduler ==
    /\ IF ~schedulerEnabled
       THEN UNCHANGED schedVars
       ELSE /\ schedulerEnabled' = FALSE
            /\ SchedBecomes(stopAllJobs(schedState, jobs))
            /\ UNCHANGED << jobs, running >>
    /\ SchedFrame

\* the callback of a timer starts: it returns when the scheduler is disabled,
\* else it awaits runDailyAnalysis(job.schedule)
TimerExpires(timer) ==
    /\ timer \in timers
    /\ timers' = timers \ {timer}
    /\ running' = IF schedulerEnabled THEN running (+) SetToBag({timer.job})
                  ELSE running
    /\ UNCHANGED << schedulerEnabled, jobs, jobHeap, lastTimerId >>
    /\ SchedFrame

\* runDailyAnalysis returns or throws; the callback calls scheduleJob(job)
JobCompletes(job) ==
    /\ BagIn(job, running)
    /\ schedulerEnabled => lastTimerId < MaxTimerIds
    /\ running' = running (-) SetToBag({job})
    /\ SchedBecomes(scheduleJob(schedState, job, schedulerEnabled))
    /\ UNCHANGED << schedulerEnabled, jobs >>
    /\ SchedFrame

InitSched ==
    /\ policy = "market_band"
    /\ InitMonitor({1})
    /\ Unobserved
    /\ EngineOff
    /\ DetectorOff
    /\ HoursOff
    /\ schedulerEnabled = FALSE
    /\ jobs = << >>
    /\ jobHeap = << >>
    /\ timers = {}
    /\ running = EmptyBag
    /\ lastTimerId = 0

NextSched ==
    \/ startScheduler
    \/ reloadSchedulerTimes
    \/ stopScheduler
    \/ \E timer \in timers : TimerExpires(timer)
    \/ \E job \in BagToSet(running) : JobCompletes(job)

SpecSched == InitSched /\ [][NextSched]_vars

(***************************************************************************)
(* isMarketOpen on its own: one call on a date around the session limits.  *)
(***************************************************************************)
\* minutes of the day: the session limits, the minute before and after each
ClockInputs ==
    { 0, 510, 539, 540, 541, 600, 689, 690, 691, 705, 719, 720, 721, 750,
      809, 810, 811, 900, 959, 960, 961, 1020, 1439 }

SecondInputs == {0, 30, 59}

DateInputs ==
    { [ day |-> d, hours |-> m \div 60, minutes |-> m % 60, seconds |-> sec ] :
        d \in 0..6, m \in ClockInputs, sec \in SecondInputs }

InitHours ==
    /\ policy = "market_band"
    /\ InitMonitor({1})
    /\ Unobserved
    /\ EngineOff
    /\ DetectorOff
    /\ SchedOff
    /\ hPc = "ready"
    /\ hDate \in DateInputs
    /\ hResult = {}

\* isMarketOpen(mockDate), as runCheck calls it with the Jakarta time
CheckMarket ==
    /\ hPc = "ready"
    /\ hResult' = { isMarketOpen(hDate) }
    /\ hPc' = "done"
    /\ UNCHANGED << policy, now, recs, timerVars, broadcastFn, lastStep,
                    anomalyCooldowns, ticks, entryWrites, enteredOnce,
                    writtenFrom, alertLog, lastScan, notifyLog, hDate >>
    /\ UNCHANGED << engineVars, detectorVars, schedVars, lastRowId >>

NextHours == CheckMarket

SpecHours == InitHours /\ [][NextHours]_vars


(***************************************************************************)
(* Properties.                                                             *)
(***************************************************************************)
LifecycleGraph ==
    { << "pending", "entry_hit" >>, << "pending", "expired" >>,
      << "entry_hit", "target_hit" >>, << "entry_hit", "sl_hit" >>,
      << "entry_hit", "expired" >> }

\* C1: every change of a position's stored status is an edge of the lifecycle
\* graph: pending -> entry_hit, pending -> expired, entry_hit -> target_hit,
\* entry_hit -> sl_hit or entry_hit -> expired.
C1_StatusFollowsGraph ==
    [][ \A id \in DOMAIN recs :
          recs'[id].status # recs[id].status
              => << recs[id].status, recs'[id].status >> \in LifecycleGraph ]_vars

\* C2: once a position's stored status is target_hit, sl_hit or expired, its
\* status, exit date, exit price and realized P&L never change again.
C2_TerminalAbsorbing ==
    [][ \A id \in DOMAIN recs :
          recs[id].status \in TerminalStatuses => recs'[id] = recs[id] ]_vars

\* C3: the entry_hit update of a position is written at most once, and an
\* entry-hit date that has been written is never changed.
C3_EntryHitOnce ==
    [][ \A id \in DOMAIN recs :
          /\ entryWrites'[id] <= 1
          /\ recs[id].entryHitDate # {}
                => recs'[id].entryHitDate = recs[id].entryHitDate ]_vars

\* C4: at most one runCheck invocation is in progress at any time.
C4_TicksSerialized == BagCardinality(ticks) <= 1

\* C5: a terminal record written for a position that was still pending (a
\* direct pending -> expired) has profitLossPct = null, and a terminal record
\* with a profitLossPct was written from entry_hit, for a position that had
\* reached entry_hit.
C5_PnlOnlyAfterEntry ==
    \A id \in DOMAIN recs :
        recs[id].status \in TerminalStatuses =>
            /\ writtenFrom[id] = {"pending"} =>
                  recs[id].status = "expired" /\ recs[id].profitLossPct = {}
            /\ id \notin enteredOnce => recs[id].profitLossPct = {}
            /\ recs[id].profitLossPct # {} =>
                  writtenFrom[id] = {"entry_hit"} /\ id \in enteredOnce

\* a position expired straight from pending: exit date and price are set, the
\* P&L is null
C5_Witness ==
    \E id \in DOMAIN recs :
        /\ recs[id].status = "expired"
        /\ writtenFrom[id] = {"pending"}
        /\ id \notin enteredOnce
        /\ recs[id].exitPrice # {}
        /\ recs[id].profitLossPct = {}

\* the first result of the status checker names this status ({} for none)
firstStatus == { u.newStatus : u \in eResults[1] }

\* price within [entry x 0.995, entry x 1.005], in exact arithmetic
inBand(price, entry) ==
    price * 1000 >= entry * 995 /\ price * 1000 <= entry * 1005

\* C6: for a pending MARKET position the status checker returns entry_hit when
\* the price lies in [entry x 0.995, entry x 1.005], and no transition when the
\* price lies outside the band and daysActive is below the stale-pending
\* threshold and below maxHoldDays.
C6_MarketEntryBand ==
    ( /\ Len(eResults) >= 1
      /\ ePred.status = "pending"
      /\ ePred.orderType = "MARKET" )
    => /\ inBand(ePrice, ePred.entryPrice) => firstStatus = {"entry_hit"}
       /\ ( /\ ~inBand(ePrice, ePred.entryPrice)
            /\ ePred.daysActive < STALE_PENDING_DAYS
            /\ ePred.daysActive < ePred.maxHoldDays ) => firstStatus = {}

\* C7: for a pending LIMIT position the status checker never returns
\* entry_hit, whatever the price: it returns expired or no transition.
C7_LimitNeverEnters ==
    ( /\ Len(eResults) >= 1
      /\ ePred.status = "pending"
      /\ ePred.orderType = "LIMIT" )
    => firstStatus \in { {}, {"expired"} }

\* C8: for an entry_hit position, price <= stopLoss yields sl_hit; otherwise
\* price >= targetPrice yields target_hit; otherwise daysActive >= maxHoldDays
\* yields expired; otherwise there is no transition.
C8_StopLossFirst ==
    ( Len(eResults) >= 1 /\ ePred.status = "entry_hit" )
    => firstStatus =
         IF ePrice <= ePred.stopLoss THEN {"sl_hit"}
         ELSE IF ePrice >= ePred.targetPrice THEN {"target_hit"}
         ELSE IF ePred.daysActive >= ePred.maxHoldDays THEN {"expired"}
         ELSE {}

\* a price at or below the stop-loss and at or above the target, past the
\* maximum hold: sl_hit
C8_Witness ==
    /\ Len(eResults) >= 1
    /\ ePred.status = "entry_hit"
    /\ ePrice <= ePred.stopLoss
    /\ ePrice >= ePred.targetPrice
    /\ ePred.daysActive >= ePred.maxHoldDays
    /\ firstStatus = {"sl_hit"}

analyzing(t) ==
    LET waiting == { tick \in BagToSet(ticks) : tick.pc = "analyze" /\ t \in tick.alert }
        RECURSIVE count(_)
        count(S) == IF S = {} THEN 0
                    ELSE LET x == CHOOSE y \in S : TRUE
                         IN  CopiesIn(x, ticks) + count(S \ {x})
    IN  count(waiting)

ofType(anomalies, type) ==
    SelectSeq(anomalies, LAMBDA a : a.type = type)

\* C18: detectAnomalies returns a PRICE anomaly exactly when changePercent is
\* at or above the price threshold or at or below its negative, and then
\* exactly one, with value = changePercent and threshold = the price
\* threshold.
C18_PriceAnomaly ==
    \A anomalies \in dResult :
        LET c == dQuote.changePercent
        IN  ofType(anomalies, "PRICE") =
              IF c >= PRICE_CHANGE_PCT \/ c <= -PRICE_CHANGE_PCT
              THEN << [ ticker |-> "BBCA", type |-> "PRICE", value |-> c,
                        threshold |-> PRICE_CHANGE_PCT ] >>
              ELSE << >>

\* a fall of 6.2% reported as one PRICE anomaly with the negative value
C18_Witness ==
    /\ dQuote.changePercent = -620
    /\ \E anomalies \in dResult :
          /\ Len(ofType(anomalies, "PRICE")) = 1
          /\ ofType(anomalies, "PRICE")[1].value = -620

\* C19: detectAnomalies returns a VOLUME anomaly exactly when the average
\* volume is known and positive and volume >= averageVolume x the multiplier,
\* whatever the PRICE decision is; a quote yields at most one anomaly of each
\* kind and nothing else.
C19_VolumeAnomaly ==
    \A anomalies \in dResult :
        /\ Len(ofType(anomalies, "VOLUME")) =
              IF \E avg \in dQuote.averageVolume :
                     avg > 0 /\ dQuote.volume >= avg * VOLUME_MULTIPLIER
              THEN 1 ELSE 0
        /\ Len(ofType(anomalies, "PRICE")) <= 1
        /\ Len(anomalies) = Len(ofType(anomalies, "PRICE"))
                              + Len(ofType(anomalies, "VOLUME"))

\* one quote with a PRICE and a VOLUME anomaly
C19_Witness ==
    \E anomalies \in dResult :
        /\ Len(anomalies) = 2
        /\ anomalies[1].type = "PRICE"
        /\ anomalies[2].type = "VOLUME"
        /\ anomalies[2].value = dQuote.volume

\* C20: a call of detectAnomalies made after the thresholds were overridden
\* decides with the overriding values.
C20_HotReload ==
    \A anomalies \in dResult :
        LET effective == getEffectiveConfig(configAnomaly, overrides)
            c == dQuote.changePercent
        IN  /\ Len(ofType(anomalies, "PRICE")) =
                  IF c >= effective.priceChangePct \/ c <= -effective.priceChangePct
                  THEN 1 ELSE 0
            /\ Len(ofType(anomalies, "VOLUME")) =
                  IF \E avg \in dQuote.averageVolume :
                         avg > 0 /\ dQuote.volume >= avg * effective.volumeMultiplier
                  THEN 1 ELSE 0

\* C11: an exception raised inside a tick is caught by runCheck: it never
\* leaves runCheck as a rejected promise, the step in which it is caught
\* cancels no timer, and while a check timer is set the timer can fire again.
C11_CaughtAtBoundary ==
    /\ [] ( "unhandled_rejection" \notin lastStep.out )
    /\ [] ( ( "monitor_error" \in lastStep.out /\ checkTimers > 0 )
               => ENABLED TimerFires )
    /\ [][ "monitor_error" \in lastStep'.out =>
              /\ checkTimers' >= checkTimers
              /\ clockTimers' >= clockTimers
              /\ intervalId # {} => intervalId' = intervalId ]_vars

\* after a tick ended in the catch of runCheck, the timer started the next
\* tick, which is fetching prices
C11_Witness ==
    /\ lastStep.op = "TimerFires"
    /\ lastStep.afterError
    /\ "fetch" \in lastStep.out
    /\ checkTimers = 1

\* C12: a tick that finds the market closed fetches nothing, changes no
\* position and no cooldown entry, and emits nothing; the heartbeat fires
\* whenever its timer is set, whatever the market hours.
C12_ClosedMarketTick ==
    /\ [][ lastStep'.marketOpen = {FALSE} =>
              /\ UNCHANGED << recs, anomalyCooldowns, ticks, alertLog, notifyLog,
                              entryWrites >>
              /\ lastStep'.out = {} ]_vars
    /\ [][ lastStep'.op = "Heartbeat" =>
              lastStep'.out = IF broadcastFn THEN {"HEARTBEAT"} ELSE {} ]_vars
    /\ [] ( clockTimers > 0 => ENABLED Heartbeat )

\* the timer fired with the market closed while a position is open, and the
\* heartbeat can fire
C12_Witness ==
    /\ lastStep.op = "TimerFires"
    /\ lastStep.marketOpen = {FALSE}
    /\ getActiveRecommendations(recs) # << >>
    /\ ticks = EmptyBag
    /\ broadcastFn
    /\ ENABLED Heartbeat

\* C13: startMonitoring on a running loop runs no check and sets no timer, and
\* at most one check timer and one heartbeat timer are set at any time.
C13_StartWhileRunning ==
    /\ [] ( checkTimers <= 1 /\ clockTimers <= 1 )
    /\ [][ ( lastStep'.op = "startMonitoring" /\ intervalId # {} ) =>
              /\ UNCHANGED << timerVars, ticks, recs >>
              /\ lastStep'.marketOpen = {}
              /\ lastStep'.out = {"warn"} ]_vars

\* startMonitoring was called on a running loop
C13_Witness ==
    /\ lastStep.op = "startMonitoring"
    /\ lastStep.out = {"warn"}
    /\ checkTimers = 1
    /\ clockTimers = 1

\* C14: after stopMonitoring neither timer is set; on a loop that is not
\* running it changes nothing; startMonitoring on a stopped loop sets both
\* timers again.
C14_StopIdempotent ==
    /\ [][ lastStep'.op = "stopMonitoring" =>
              /\ checkTimers' = 0 /\ clockTimers' = 0
              /\ intervalId' = {} /\ clockIntervalId' = {}
              /\ UNCHANGED << recs, ticks, anomalyCooldowns >>
              /\ intervalId = {} => UNCHANGED timerVars /\ lastStep'.out = {} ]_vars
    /\ [][ ( lastStep'.op = "startMonitoring" /\ intervalId = {} ) =>
              /\ checkTimers' = 1 /\ clockTimers' = 1
              /\ intervalId' # {} /\ clockIntervalId' # {} ]_vars

\* stopMonitoring was called on a loop already stopped, while a check started
\* before the stop is still in flight
C14_Witness ==
    /\ lastStep.op = "stopMonitoring"
    /\ lastStep.out = {}
    /\ ticks # EmptyBag
    /\ checkTimers = 0
    /\ clockTimers = 0

\* C15: in a pass, a ticker whose price lookup failed is in the errors of the
\* pass and its positions are left as they were; a position whose ticker
\* resolved is evaluated and, when a rule fires, gets the new status.
C15_FetchFailureIsolated ==
    [][ ( lastStep'.op = "FetchReturns" /\ ~lastStep'.saveFailed ) =>
          \A i \in 1..Len(lastStep'.activeRecs) :
              LET rec == lastStep'.activeRecs[i]
                  prices == lastStep'.priceMap[rec.ticker]
              IN  IF prices = {}
                  THEN /\ rec.ticker \in lastStep'.errors
                       /\ recs'[rec.id] = recs[rec.id]
                  ELSE LET price == CHOOSE p \in prices : TRUE
                           found == statusChecker(policy,
                                        transformToTracked(rec, price, now), price)
                       IN  IF found = {}
                           THEN recs'[rec.id] = recs[rec.id]
                           ELSE recs'[rec.id].status =
                                    (CHOOSE u \in found : TRUE).newStatus ]_vars

\* C16: when the save of a status update throws during a pass, the failure is
\* logged and is in the errors of that pass.
C16_SaveErrorSurfaced ==
    lastStep.saveFailed =>
        /\ "monitor_error" \in lastStep.out
        /\ lastStep.errors # {}

\* C17: no step removes a position from the store, a stored position changes
\* only by a change of its status, and a position leaves the open statuses
\* only for a terminal status.
C17_NeverDeleted ==
    [][ \A id \in DOMAIN recs :
          /\ id \in DOMAIN recs'
          /\ recs'[id] # recs[id] => recs'[id].status # recs[id].status
          /\ ( recs[id].status \in OpenStatuses
               /\ recs'[id].status \notin OpenStatuses )
                 => recs'[id].status \in TerminalStatuses ]_vars

\* C21: when the stored status of a position goes from entry_hit to a
\* terminal status, the stored exit price is the price that fired the rule
\* and the stored profitLossPct is (exitPrice - entryPrice) / entryPrice x 100
\* (in hundredths of a percent); 945 gives sl_hit and -5.5, 1105 gives
\* target_hit and +10.5.
C21_RealizedPnl ==
    [][ \A id \in DOMAIN recs :
          ( recs[id].status = "entry_hit"
            /\ recs'[id].status \in TerminalStatuses ) =>
              /\ recs'[id].exitPrice # {}
              /\ recs'[id].profitLossPct # {}
              /\ \A x \in recs'[id].exitPrice, p \in recs'[id].profitLossPct :
                   LET entry == recs[id].entryPrice
                       exact == (x - entry) * 10000
                   IN  /\ Abs(p * entry - exact) < entry
                       /\ recs'[id].status = "sl_hit" => x <= recs[id].stopLoss
                       /\ recs'[id].status = "target_hit" =>
                              isPriceHit(x, recs[id].targetPrice)
                                \/ x >= recs[id].targetPrice
                       /\ x = 945 => recs'[id].status = "sl_hit" /\ p = -550
                       /\ x = 1105 => recs'[id].status = "target_hit" /\ p = 1050 ]_vars

\* the time of day of a date, in seconds
secondOfDay(date) == date.hours * 3600 + date.minutes * 60 + date.seconds

\* the trading sessions of the exchange, their limits included
inSession(date) ==
    LET sec == secondOfDay(date)
        lunch == IF date.day = 5 THEN 11 * 3600 + 30 * 60 ELSE 12 * 3600
    IN  /\ date.day \in 1..5
        /\ \/ 9 * 3600 <= sec /\ sec <= lunch
           \/ 13 * 3600 + 30 * 60 <= sec /\ sec <= 16 * 3600

\* C22: isMarketOpen(t) is true exactly when t is on Monday to Friday inside
\* a trading session (09:00-12:00, on Friday 09:00-11:30, and 13:30-16:00).
C22_MarketHours ==
    hResult # {} => hResult = { inSession(hDate) }

\* C23: when the enrichment call for a detected anomaly fails, the analysis
\* text used is the empty string, and the anomaly goes on to be notified.
C23_EmptyFallback ==
    ( lastStep.op = "AnalyzeReturns" /\ "ok" \notin lastStep.out ) =>
        /\ lastStep.analysis = {""}
        /\ \E tick \in BagToSet(ticks) : tick.pc = "notifyAnomaly"

\* C24: a notification that fails does not end the invocation: no remaining
\* notification, broadcast or anomaly scan of the tick is left undone.
C24_NotifyIsolated ==
    lastStep.op \in {"NotifyStatusReturns", "NotifyAnomalyReturns"} =>
        /\ "monitor_error" \notin lastStep.out
        /\ lastStep.dropped = {}

\* the status updates a pass computes from its snapshot and its prices
updatesOf(step) ==
    UNION { LET rec == step.activeRecs[i]
                prices == step.priceMap[rec.ticker] \ {0}
            IN  IF prices = {} THEN {}
                ELSE LET price == CHOOSE p \in prices : TRUE
                     IN  statusChecker(policy, transformToTracked(rec, price, now),
                                       price)
            : i \in 1..Len(step.activeRecs) }

\* C25: every transition a pass persists is a transition of the stored
\* position: entry_hit is written only over pending, a terminal status only
\* over an open status, so no transition is persisted or notified twice.
C25_NoDuplicateTransition ==
    [][ ( lastStep'.op = "FetchReturns" /\ ~lastStep'.saveFailed ) =>
          \A u \in updatesOf(lastStep') :
              /\ u.newStatus = "entry_hit" => recs[u.id].status = "pending"
              /\ u.newStatus \in TerminalStatuses =>
                     recs[u.id].status \in OpenStatuses ]_vars

\* the runCheck invocations that alerted on ticker t and are at the await of
\* analyzeAnomaly or of notifyAnomaly
alerting(t) ==
    { tick \in BagToSet(ticks) :
        tick.pc \in {"analyze", "notifyAnomaly"} /\ t \in tick.alert }

firstOutcome == { << u.newStatus, u.reason >> : u \in eResults[1] }

\* C28: for a pending position on which the entry rule does not fire, the
\* checker returns expired with the stale-pending reason when daysActive >= 3,
\* expired with the max-hold reason when daysActive < 3 and daysActive >=
\* maxHoldDays, and no transition otherwise.
C28_PendingExpiry ==
    ( /\ Len(eResults) >= 1
      /\ ePred.status = "pending"
      /\ firstStatus # {"entry_hit"} )
    => firstOutcome =
         IF ePred.daysActive >= 3
         THEN { << "expired", "stale_pending" >> }
         ELSE IF ePred.daysActive >= ePred.maxHoldDays
         THEN { << "expired", "max_hold_without_entry" >> }
         ELSE {}

\* two days old with a maximum hold of two days, the entry not hit: expired
\* for the maximum hold
C28_Witness ==
    /\ Len(eResults) >= 1
    /\ ePred.status = "pending"
    /\ ePred.daysActive = 2
    /\ ePred.maxHoldDays = 2
    /\ firstOutcome = { << "expired", "max_hold_without_entry" >> }

\* C27: a position whose stored status changes in a pass is announced by the
\* invocation that ran the pass: the change is in its STATUS_UPDATE broadcast
\* and among the updates it goes on to notify, and no update waiting for its
\* notification is dropped.
C27_PersistedIsAnnounced ==
    /\ [][ lastStep'.op = "FetchReturns" =>
             \A id \in DOMAIN recs :
                 recs'[id].status # recs[id].status =>
                     /\ "STATUS_UPDATE" \in lastStep'.out
                     /\ \E tick \in BagToSet(ticks') :
                           /\ tick.pc = "notifyStatus"
                           /\ \E i \in 1..Len(tick.updates) :
                                 tick.updates[i].id = id ]_vars
    /\ [][ lastStep'.op = "NotifyStatusReturns" =>
             "notifyStatusChange" \notin lastStep'.dropped ]_vars

\* the next step of a runCheck invocation in flight
inFlightStep(tick) ==
    \/ FetchReturns(tick, LoopQuotes, LoopFaults)
    \/ NotifyStatusReturns(tick)
    \/ AnalyzeReturns(tick)
    \/ NotifyAnomalyReturns(tick)

\* C29: stopMonitoring leaves the invocations in flight as they are and each
\* of them can take its next step while the loop is stopped; while the loop
\* is stopped the timer starts no invocation.
C29_StopLeavesInFlight ==
    /\ [][ lastStep'.op = "stopMonitoring" => ticks' = ticks ]_vars
    /\ [] ( intervalId = {} =>
              \A tick \in BagToSet(ticks) : ENABLED inFlightStep(tick) )
    /\ [][ intervalId = {} => lastStep'.op # "TimerFires" ]_vars

\* with the loop stopped, an invocation started before the stop has persisted
\* a transition, broadcast it and gone on to notify it
C29_Witness ==
    /\ intervalId = {}
    /\ checkTimers = 0
    /\ lastStep.op = "FetchReturns"
    /\ "STATUS_UPDATE" \in lastStep.out
    /\ recs[1].status # "pending"
    /\ \E tick \in BagToSet(ticks) : tick.pc = "notifyStatus"

\* the pending timers that belong to a schedule
pendingOf(schedule) ==
    { t \in timers : jobHeap[t.job].schedule = schedule }

\* C30: at most one timer is pending for each schedule, and no timer is
\* pending while the scheduler is disabled.
C30_OneTimerPerSchedule ==
    /\ \A i \in 1..Len(Schedules) : Cardinality(pendingOf(Schedules[i])) <= 1
    /\ ~schedulerEnabled => timers = {}

====
